---- MODULE Spec2Model ----
(***************************************************************************)
(* The shiritori game engine of src/game.py as a state machine.           *)
(*                                                                         *)
(* A character is its Unicode code point, a string is a sequence of code   *)
(* points.  A GameWord is the record [kanji, kana, rank, is_noun].  The    *)
(* dict known_words is the sequence of its items in iteration order        *)
(* (Python dicts iterate in insertion order; storing under an existing key *)
(* keeps the key's position and replaces its value).                       *)
(***************************************************************************)
EXTENDS Integers, Sequences, FiniteSets

VARIABLES
    words,        \* constructor argument `words`
    max_rank,     \* constructor argument `max_rank`: <<>> is None, <<r>> is r
    pc,           \* "new" | "pick" | "ready" | "failed": where the constructor stands;
                  \* "text" | "normalized" | "renormalized" when
                  \* katakana_to_hiragana is called alone
    known_words,  \* Game.known_words
    seen_words,   \* Game.seen_words
    player_score, \* Game.player_score
    result,       \* what the last call returned or raised
    before,       \* observer: len(seen_words) and player_score when the last call began
    next_called,  \* observer: next_word has been called on this game
    ok_submits,   \* observer: number of send_word calls that returned
    arg_text,     \* argument of katakana_to_hiragana when it is called alone
    ret_text,     \* what katakana_to_hiragana returned for it
    main_pc,      \* main(): "" (not running) | "draw" | "prompt" | "sent" | "over"
    main_word,    \* main()'s local `word`: <<>> (unbound) or <<word>>
    main_retried  \* observer: the handler of lines 164-166 has run in this game

vars == <<words, max_rank, pc, known_words, seen_words, player_score,
          result, before, next_called, ok_submits,
          arg_text, ret_text, main_pc, main_word, main_retried>>

\* what the calls on a Game leave alone
aside == <<arg_text, ret_text, main_pc, main_word, main_retried>>

----------------------------------------------------------------------------
(* Code points named by the source.                                        *)

HIRAGANA_LETTER_SMALL_A == 12353
HIRAGANA_DIGRAPH_YORI == 12447
KATAKANA_HIRAGANA_DOUBLE_HYPHEN == 12448
KATAKANA_DIGRAPH_KOTO == 12543
KATAKANA_LETTER_SMALL_A == 12449
KATAKANA_LETTER_N == 12531
HIRAGANA_LETTER_N == 12435
HIRAGANA_LETTER_SMALL_YA == 12419
HIRAGANA_LETTER_YA == 12420
HIRAGANA_LETTER_SMALL_YU == 12421
HIRAGANA_LETTER_YU == 12422
HIRAGANA_LETTER_SMALL_YO == 12423
HIRAGANA_LETTER_YO == 12424
\* itertools.islice(gen, 10)
SampleSize == 10

(* Further characters of the inputs, by their place in their block.        *)
HIRAGANA_LETTER_A == HIRAGANA_LETTER_SMALL_A + 1
HIRAGANA_LETTER_SA == HIRAGANA_LETTER_SMALL_A + 20
HIRAGANA_LETTER_RU == HIRAGANA_LETTER_SMALL_A + 74
KATAKANA_LETTER_A == KATAKANA_LETTER_SMALL_A + 1
KATAKANA_LETTER_SA == KATAKANA_LETTER_SMALL_A + 20
KATAKANA_LETTER_RU == KATAKANA_LETTER_SMALL_A + 74

----------------------------------------------------------------------------
(* Bounds of the model.                                                    *)

\* longest vocabulary drawn from WordPool
MaxWords == 3
\* number of words of LongVocabulary that continue its hub word (more than
\* SampleSize)
MaxLong == 12
\* longest string given to katakana_to_hiragana alone
MaxText == 2

----------------------------------------------------------------------------
(* Strings.                                                                *)

Last(s) == s[Len(s)]

Min(a, b) == IF a <= b THEN a ELSE b

\* str.startswith / str.endswith with a one-character argument
startswith(text, c) == Len(text) >= 1 /\ text[1] = c

endswith(text, c) == Len(text) >= 1 /\ text[Len(text)] = c

\* x in list
contains(list, x) == \E i \in 1..Len(list) : list[i] = x

is_hiragana(text) ==
    \A i \in 1..Len(text) :
        text[i] >= HIRAGANA_LETTER_SMALL_A /\ text[i] <= HIRAGANA_DIGRAPH_YORI

is_katakana(text) ==
    \A i \in 1..Len(text) :
        text[i] >= KATAKANA_HIRAGANA_DOUBLE_HYPHEN /\ text[i] <= KATAKANA_DIGRAPH_KOTO

\* katakana_to_hiragana with max_code of is_hiragana taken for h_sa at line 30
katakana_to_hiragana_wrong_base(text) ==
    [i \in 1..Len(text) |->
        IF is_katakana(<<text[i]>>) /\ text[i] <= KATAKANA_LETTER_N
        THEN HIRAGANA_DIGRAPH_YORI + text[i] - KATAKANA_LETTER_SMALL_A
        ELSE text[i]]

\* katakana_to_hiragana with ord(c) < ord(k_n) at line 34
katakana_to_hiragana_below_n(text) ==
    [i \in 1..Len(text) |->
        IF is_katakana(<<text[i]>>) /\ text[i] < KATAKANA_LETTER_N
        THEN HIRAGANA_LETTER_SMALL_A + text[i] - KATAKANA_LETTER_SMALL_A
        ELSE text[i]]

katakana_to_hiragana(text) ==
    [i \in 1..Len(text) |->
        IF is_katakana(<<text[i]>>) /\ text[i] <= KATAKANA_LETTER_N
        THEN HIRAGANA_LETTER_SMALL_A + text[i] - KATAKANA_LETTER_SMALL_A
        ELSE text[i]]

\* mora.translate(Game.small_to_big) on one character
small_to_big(c) ==
    CASE c = HIRAGANA_LETTER_SMALL_YA -> HIRAGANA_LETTER_YA
      [] c = HIRAGANA_LETTER_SMALL_YU -> HIRAGANA_LETTER_YU
      [] c = HIRAGANA_LETTER_SMALL_YO -> HIRAGANA_LETTER_YO
      [] OTHER -> c

----------------------------------------------------------------------------
(* Words and the dict.                                                     *)

GameWord(kanji, kana, rank, is_noun) ==
    [kanji |-> kanji, kana |-> kana, rank |-> rank, is_noun |-> is_noun]

dict_has(d, k) == \E i \in 1..Len(d) : d[i].key = k

dict_get(d, k) == d[CHOOSE i \in 1..Len(d) : d[i].key = k].value

dict_set(d, k, v) ==
    IF dict_has(d, k)
    THEN [i \in 1..Len(d) |-> IF d[i].key = k THEN [key |-> k, value |-> v] ELSE d[i]]
    ELSE Append(d, [key |-> k, value |-> v])

dict_keys(d) == [i \in 1..Len(d) |-> d[i].key]

dict_values(d) == [i \in 1..Len(d) |-> d[i].value]

\* max(words, key=lambda x: x.rank).rank
default_max_rank(ws) ==
    CHOOSE r \in {ws[i].rank : i \in 1..Len(ws)} :
        \A i \in 1..Len(ws) : ws[i].rank <= r

resolved_max_rank(ws, mr) == IF mr = <<>> THEN default_max_rank(ws) ELSE mr[1]

\* the comprehension with w.rank < max_rank
RECURSIVE build_known_words_exclusive(_, _, _)
build_known_words_exclusive(ws, mr, d) ==
    IF ws = <<>> THEN d
    ELSE LET w == Head(ws) IN
         build_known_words_exclusive(Tail(ws), mr,
             IF w.rank < mr THEN dict_set(d, katakana_to_hiragana(w.kana), w) ELSE d)

\* {katakana_to_hiragana(w.kana): w for w in words if w.rank <= max_rank}
RECURSIVE build_known_words(_, _, _)
build_known_words(ws, mr, d) ==
    IF ws = <<>> THEN d
    ELSE LET w == Head(ws) IN
         build_known_words(Tail(ws), mr,
             IF w.rank <= mr THEN dict_set(d, katakana_to_hiragana(w.kana), w) ELSE d)

----------------------------------------------------------------------------
(* Inputs.                                                                 *)

asa == GameWord("morning", <<HIRAGANA_LETTER_A, HIRAGANA_LETTER_SA>>, 1, TRUE)
saru == GameWord("monkey", <<HIRAGANA_LETTER_SA, HIRAGANA_LETTER_RU>>, 1, TRUE)
rusha == GameWord("", <<HIRAGANA_LETTER_RU, HIRAGANA_LETTER_SMALL_YA>>, 2, TRUE)
yaa == GameWord("", <<HIRAGANA_LETTER_YA, HIRAGANA_LETTER_A>>, 2, TRUE)
san == GameWord("three", <<HIRAGANA_LETTER_SA, HIRAGANA_LETTER_N>>, 1, TRUE)
saa == GameWord("", <<HIRAGANA_LETTER_SA, HIRAGANA_LETTER_A>>, 1, FALSE)
SARU == GameWord("leave", <<KATAKANA_LETTER_SA, KATAKANA_LETTER_RU>>, 2, TRUE)
RUN == GameWord("", <<KATAKANA_LETTER_RU, KATAKANA_LETTER_N>>, 1, TRUE)

WordPool == {asa, saru, rusha, yaa, san, saa, SARU, RUN}

\* sequences of distinct pool words, up to MaxWords long
ShortVocabularies ==
    {ws \in UNION {[1..n -> WordPool] : n \in 0..MaxWords} :
        \A i, j \in 1..Len(ws) : i # j => ws[i] # ws[j]}

\* the hub word sa-a, then the spokes a-sa, a-a-sa, a-a-a-sa, ...: every
\* spoke continues the hub and the hub continues every spoke
hub == GameWord("hub", <<HIRAGANA_LETTER_SA, HIRAGANA_LETTER_A>>, 1, TRUE)

spoke(n) ==
    GameWord("spoke",
             [i \in 1..(n + 1) |-> IF i <= n THEN HIRAGANA_LETTER_A
                                            ELSE HIRAGANA_LETTER_SA],
             1, TRUE)

LongVocabulary == <<hub>> \o [n \in 1..MaxLong |-> spoke(n)]

Vocabularies == ShortVocabularies \cup {LongVocabulary}

MaxRanks == {<<>>, <<0>>, <<1>>}

\* what a player may type: the empty text, an unknown word, both spellings
\* of the pool's readings, and the readings of the game's own words
Texts ==
    {<<>>, <<HIRAGANA_LETTER_SA, HIRAGANA_LETTER_SA>>,
     <<KATAKANA_LETTER_SA, KATAKANA_LETTER_N>>,
     <<KATAKANA_LETTER_A, KATAKANA_LETTER_SA>>}
    \cup {w.kana : w \in WordPool}
    \cup {katakana_to_hiragana(w.kana) : w \in WordPool}
    \cup {words[i].kana : i \in 1..Len(words)}

----------------------------------------------------------------------------
(* Results of calls.                                                       *)

\* ret is <<>> (nothing returned) or <<word>>; exc is "" when the call returned;
\* msg names the message the exception carries
Returned(op, ret) == [op |-> op, exc |-> "", msg |-> "", ret |-> ret]

Raised(op, exc, msg) == [op |-> op, exc |-> exc, msg |-> msg, ret |-> <<>>]

NoCall == Returned("", <<>>)

Snapshot ==
    [len |-> Len(seen_words), score |-> player_score, next_called |-> next_called]

----------------------------------------------------------------------------
(* Game.__init__                                                           *)

\* lines 56-68: the empty-words check, the index, the empty chain and score
New ==
    /\ pc = "new"
    /\ IF Len(words) = 0
       THEN /\ pc' = "failed"
            /\ result' = Raised("__init__", "RuntimeError", "words required")
            /\ UNCHANGED <<known_words, seen_words, player_score>>
       ELSE /\ pc' = "pick"
            /\ known_words' =
                   build_known_words(words, resolved_max_rank(words, max_rank), <<>>)
            /\ seen_words' = <<>>
            /\ player_score' = 0
            /\ UNCHANGED result
    /\ UNCHANGED <<words, max_rank, before, next_called, ok_submits>>
    /\ UNCHANGED aside

\* the test of line 74 without its second half
initial_ok_any_noun(first) == first.is_noun

\* line 74: the test that ends the sampling loop
initial_ok(first) == first.is_noun /\ Last(first.kana) # HIRAGANA_LETTER_N

\* lines 71-76: one round of the sampling loop; random.choice of an empty list
\* raises IndexError; a sample that fails the test leaves everything as it is
PickInitial ==
    /\ pc = "pick"
    /\ IF known_words = <<>>
       THEN /\ pc' = "failed"
            /\ result' = Raised("__init__", "IndexError", "choice from empty sequence")
            /\ UNCHANGED seen_words
       ELSE \E i \in 1..Len(known_words) :
                LET key == dict_keys(known_words)[i]
                    first == dict_get(known_words, key)
                IN  IF initial_ok(first)
                    THEN /\ seen_words' = Append(seen_words, first)
                         /\ pc' = "ready"
                         /\ result' = Returned("__init__", <<>>)
                    ELSE UNCHANGED <<pc, result, seen_words>>
    /\ UNCHANGED <<words, max_rank, known_words, player_score, before,
                   next_called, ok_submits>>
    /\ UNCHANGED aside

----------------------------------------------------------------------------
(* Game._validate, Game.next_word, Game.send_word                          *)

\* lines 83-84 and 110-111: the unit the next word must start with
mora == small_to_big(Last(Last(seen_words).kana))

\* validate with the test of the last character (lines 101-104) left out
validate_without_terminal(text) ==
    IF Len(text) = 0
    THEN Raised("send_word", "IndexError", "string index out of range")
    ELSE IF text[1] # mora
    THEN Raised("send_word", "InvalidWordException", "continuity")
    ELSE IF ~dict_has(known_words, text)
    THEN Raised("send_word", "UnknownWordException", "unknown")
    ELSE LET word == dict_get(known_words, text) IN
         IF contains(seen_words, word)
         THEN Raised("send_word", "InvalidWordException", "repeat")
         ELSE IF ~word.is_noun
         THEN Raised("send_word", "InvalidWordException", "noun")
         ELSE Returned("send_word", <<>>)

\* validate with the already-seen test (lines 93-96) left out
validate_without_repeat(text) ==
    IF Len(text) = 0
    THEN Raised("send_word", "IndexError", "string index out of range")
    ELSE IF text[1] # mora
    THEN Raised("send_word", "InvalidWordException", "continuity")
    ELSE IF ~dict_has(known_words, text)
    THEN Raised("send_word", "UnknownWordException", "unknown")
    ELSE LET word == dict_get(known_words, text) IN
         IF ~word.is_noun
         THEN Raised("send_word", "InvalidWordException", "noun")
         ELSE IF endswith(text, HIRAGANA_LETTER_N)
         THEN Raised("send_word", "InvalidWordException", "terminal")
         ELSE Returned("send_word", <<>>)

\* lines 81-104; text[0] of the empty text raises IndexError
validate(text) ==
    IF Len(text) = 0
    THEN Raised("send_word", "IndexError", "string index out of range")
    ELSE IF text[1] # mora
    THEN Raised("send_word", "InvalidWordException", "continuity")
    ELSE IF ~dict_has(known_words, text)
    THEN Raised("send_word", "UnknownWordException", "unknown")
    ELSE LET word == dict_get(known_words, text) IN
         IF contains(seen_words, word)
         THEN Raised("send_word", "InvalidWordException", "repeat")
         ELSE IF ~word.is_noun
         THEN Raised("send_word", "InvalidWordException", "noun")
         ELSE IF endswith(text, HIRAGANA_LETTER_N)
         THEN Raised("send_word", "InvalidWordException", "terminal")
         ELSE Returned("send_word", <<>>)

\* send_word without line 130
send_word_no_score(text) ==
    LET normal == katakana_to_hiragana(text)
        v == validate(normal)
    IN  IF v.exc # ""
        THEN [seen |-> seen_words, score |-> player_score, result |-> v]
        ELSE LET word == dict_get(known_words, normal) IN
             [seen |-> Append(seen_words, word),
              score |-> player_score,
              result |-> Returned("send_word", <<word>>)]

\* send_word with line 130 moved before line 128
send_word_score_first(text) ==
    LET normal == katakana_to_hiragana(text)
        v == validate(normal)
    IN  IF v.exc # ""
        THEN [seen |-> seen_words, score |-> player_score + 1, result |-> v]
        ELSE LET word == dict_get(known_words, normal) IN
             [seen |-> Append(seen_words, word),
              score |-> player_score + 1,
              result |-> Returned("send_word", <<word>>)]

\* lines 125-132: what send_word(text) makes of the chain and the score, and
\* what it returns or raises
send_word(text) ==
    LET normal == katakana_to_hiragana(text)
        v == validate(normal)
    IN  IF v.exc # ""
        THEN [seen |-> seen_words, score |-> player_score, result |-> v]
        ELSE LET word == dict_get(known_words, normal) IN
             [seen |-> Append(seen_words, word),
              score |-> player_score + 1,
              result |-> Returned("send_word", <<word>>)]

\* the generator without the test of line 114
gen_ignoring_seen ==
    SelectSeq(dict_values(known_words),
              LAMBDA word : /\ startswith(word.kana, mora)
                            /\ word.is_noun
                            /\ ~endswith(word.kana, HIRAGANA_LETTER_N))

\* lines 112-116: the generator over known_words.values()
gen ==
    SelectSeq(dict_values(known_words),
              LAMBDA word : /\ startswith(word.kana, mora)
                            /\ ~contains(seen_words, word)
                            /\ word.is_noun
                            /\ ~endswith(word.kana, HIRAGANA_LETTER_N))

\* itertools.islice(iterable, n) as a list
islice(iterable, n) == SubSeq(iterable, 1, Min(n, Len(iterable)))

\* line 117 without the islice
candidates_all == gen

\* line 117
candidates == islice(gen, SampleSize)

\* next_word without line 120
next_word_no_update ==
    IF Len(seen_words) = 1
    THEN {[seen |-> seen_words, result |-> Returned("next_word", <<seen_words[1]>>)]}
    ELSE IF candidates # <<>>
    THEN {[seen |-> seen_words,
           result |-> Returned("next_word", <<candidates[i]>>)] :
             i \in 1..Len(candidates)}
    ELSE {[seen |-> seen_words,
           result |-> Raised("next_word", "InvalidWordException", "no candidate")]}

\* lines 106-123: the chains and results next_word() can end with
next_word ==
    IF Len(seen_words) = 1
    THEN {[seen |-> seen_words, result |-> Returned("next_word", <<seen_words[1]>>)]}
    ELSE IF candidates # <<>>
    THEN {[seen |-> Append(seen_words, candidates[i]),
           result |-> Returned("next_word", <<candidates[i]>>)] :
             i \in 1..Len(candidates)}
    ELSE {[seen |-> seen_words,
           result |-> Raised("next_word", "InvalidWordException", "no candidate")]}

NextWord ==
    /\ pc = "ready"
    /\ \E e \in next_word :
          /\ seen_words' = e.seen
          /\ result' = e.result
    /\ before' = Snapshot
    /\ next_called' = TRUE
    /\ UNCHANGED <<words, max_rank, pc, known_words, player_score, ok_submits>>
    /\ UNCHANGED aside

SendWord ==
    /\ pc = "ready"
    /\ \E text \in Texts :
          LET e == send_word(text) IN
          /\ seen_words' = e.seen
          /\ player_score' = e.score
          /\ result' = e.result
          /\ ok_submits' = IF e.result.exc = "" THEN ok_submits + 1 ELSE ok_submits
    /\ before' = Snapshot
    /\ UNCHANGED <<words, max_rank, pc, known_words, next_called>>
    /\ UNCHANGED aside

----------------------------------------------------------------------------

Init ==
    /\ words \in Vocabularies
    /\ max_rank \in MaxRanks
    /\ pc = "new"
    /\ known_words = <<>>
    /\ seen_words = <<>>
    /\ player_score = 0
    /\ result = NoCall
    /\ before = [len |-> 0, score |-> 0, next_called |-> FALSE]
    /\ next_called = FALSE
    /\ ok_submits = 0
    /\ arg_text = <<>>
    /\ ret_text = <<>>
    /\ main_pc = ""
    /\ main_word = <<>>
    /\ main_retried = FALSE

Next == New \/ PickInitial \/ NextWord \/ SendWord

Spec == Init /\ [][Next]_vars

TypeOK ==
    /\ pc \in {"new", "pick", "ready", "failed"}
    /\ player_score \in 0..Len(known_words)
    /\ Len(seen_words) <= Len(known_words)

----------------------------------------------------------------------------
(* Vocabulary of the properties.                                           *)

Ready == pc = "ready"

IsPrefix(s, t) == Len(s) <= Len(t) /\ SubSeq(t, 1, Len(s)) = s

\* the unit the word after chain must start with: last character of the last
\* word's stored reading, small forms folded
RequiredUnit(chain) == small_to_big(Last(Last(chain).kana))

\* the four conditions on an engine move after chain
Qualifies(w, chain) ==
    /\ Len(w.kana) >= 1
    /\ w.kana[1] = RequiredUnit(chain)
    /\ \A k \in 1..Len(chain) : chain[k] # w
    /\ w.is_noun
    /\ w.kana[Len(w.kana)] # HIRAGANA_LETTER_N

\* positions of the index, in iteration order, that qualify after chain
QualifyingAt(chain) ==
    {i \in 1..Len(known_words) : Qualifies(known_words[i].value, chain)}

SendFailed(r) == r.op = "send_word" /\ r.exc # ""

SendReturned(r) == r.op = "send_word" /\ r.exc = ""

NextReturned(r) == r.op = "next_word" /\ r.exc = ""

NextFailed(r) == r.op = "next_word" /\ r.exc # ""

----------------------------------------------------------------------------
\* C1: no Word occurs at two different positions of seen_words, in any state
\* reached by construction and any sequence of next_word and send_word calls.
NoWordTwice ==
    \A i, j \in 1..Len(seen_words) : i # j => seen_words[i] # seen_words[j]

\* a repeat was tried and refused, and the engine has moved too
NoWordTwice_Witness ==
    /\ Len(seen_words) >= 2
    /\ next_called
    /\ result.op = "send_word" /\ result.msg = "repeat"

----------------------------------------------------------------------------
\* C2: for every adjacent pair (prev, curr) of seen_words, the first character
\* of curr's stored reading is the last character of prev's stored reading,
\* small forms folded, whatever vocabulary the constructor was given.
Continuity ==
    \A i \in 2..Len(seen_words) :
        seen_words[i].kana[1] = RequiredUnit(SubSeq(seen_words, 1, i - 1))

----------------------------------------------------------------------------
(* The rules of a player's move as section 4.4 of the specification states *)
(* them, on the normalized text.                                           *)

BreaksContinuity(t) == Len(t) = 0 \/ t[1] # RequiredUnit(seen_words)

Unknown(t) == \A i \in 1..Len(known_words) : known_words[i].key # t

Resolved(t) == known_words[CHOOSE i \in 1..Len(known_words) : known_words[i].key = t].value

Repeats(t) == ~Unknown(t) /\ \E k \in 1..Len(seen_words) : seen_words[k] = Resolved(t)

NotNoun(t) == ~Unknown(t) /\ ~Resolved(t).is_noun

EndsInForbidden(t) == Len(t) >= 1 /\ t[Len(t)] = HIRAGANA_LETTER_N

\* the failure the first violated rule stands for, as <<exception, message>>
FirstViolated(t) ==
    CASE BreaksContinuity(t) -> <<"InvalidWordException", "continuity">>
      [] ~BreaksContinuity(t) /\ Unknown(t) -> <<"UnknownWordException", "unknown">>
      [] ~BreaksContinuity(t) /\ Repeats(t) -> <<"InvalidWordException", "repeat">>
      [] ~BreaksContinuity(t) /\ ~Repeats(t) /\ NotNoun(t) ->
             <<"InvalidWordException", "noun">>
      [] ~BreaksContinuity(t) /\ ~Unknown(t) /\ ~Repeats(t) /\ ~NotNoun(t)
             /\ EndsInForbidden(t) -> <<"InvalidWordException", "terminal">>
      [] OTHER -> <<"", "">>

ReportsFirstViolated(text) ==
    LET r == send_word(text).result IN
    <<r.exc, r.msg>> = FirstViolated(katakana_to_hiragana(text))

\* C3: send_word checks continuity, known-word, no-repeat, noun, terminal-unit
\* in that order and reports the first rule the text violates, for every text.
ValidateOrder == Ready => \A text \in Texts : ReportsFirstViolated(text)

\* the same for the texts that have a first character
ValidateOrderOfNonEmptyTexts ==
    Ready => \A text \in Texts \ {<<>>} : ReportsFirstViolated(text)

\* a state where some text breaks one rule and a later one too
SeveralRulesBroken ==
    /\ Ready
    /\ \E text \in Texts \ {<<>>} :
          LET t == katakana_to_hiragana(text) IN
          /\ BreaksContinuity(t) /\ Unknown(t)
    /\ \E text \in Texts \ {<<>>} :
          LET t == katakana_to_hiragana(text) IN
          /\ Repeats(t) /\ EndsInForbidden(t)

----------------------------------------------------------------------------
\* C4: player_score is the number of send_word calls that returned: 0 at the
\* start, one more after each successful send_word, unchanged by next_word
\* and by a failing send_word.
ScoreCountsSubmits == player_score = ok_submits

\* the score is up, next_word has returned and failed, and a send_word failed
ScoreCountsSubmits_Witness ==
    /\ player_score >= 1
    /\ Len(seen_words) > player_score + 1
    /\ SendFailed(result)

----------------------------------------------------------------------------
\* C5: a send_word call that raises UnknownWordException or
\* InvalidWordException leaves seen_words, player_score and known_words as
\* they were, and every step leaves the old chain a prefix of the new one.
FailedSubmitChangesNothing ==
    [][/\ (/\ SendFailed(result')
           /\ result'.exc \in {"UnknownWordException", "InvalidWordException"})
          => /\ seen_words' = seen_words
             /\ player_score' = player_score
             /\ known_words' = known_words
       /\ IsPrefix(seen_words, seen_words')]_vars

\* an unknown word was refused in a game that has a score and engine moves
FailedSubmitChangesNothing_Witness ==
    /\ result.op = "send_word" /\ result.exc = "UnknownWordException"
    /\ player_score >= 1
    /\ Len(seen_words) >= 3

----------------------------------------------------------------------------
\* C6: a send_word that returns, followed at once by a next_word that
\* returns, lengthens seen_words by exactly two entries, the player's word
\* and then the engine's, and raises player_score by exactly 1.
SubmitThenNextAddsTwo ==
    [][(SendReturned(result) /\ NextReturned(result'))
         => /\ Len(seen_words') = before.len + 2
            /\ player_score' = before.score + 1
            /\ seen_words'[before.len + 1] = result.ret[1]
            /\ seen_words'[before.len + 2] = result'.ret[1]
            /\ IsPrefix(seen_words, seen_words')]_vars

\* the engine has just answered a chain that ends in a player's word
SubmitThenNextAddsTwo_Witness ==
    /\ NextReturned(result)
    /\ before.len >= 2
    /\ before.score >= 1
    /\ player_score = before.score
    /\ Len(seen_words) = before.len + 1
    /\ Len(seen_words) = 2 * player_score + 1

----------------------------------------------------------------------------
\* C7: when seen_words has more than one entry and next_word returns, the
\* returned word is one of the first SampleSize entries, in the index's
\* iteration order, that start with the required unit, are not in the chain,
\* are nouns and do not end in HIRAGANA LETTER N; it becomes the new last
\* entry of the chain, and nothing else changes.
EngineMoveIsSampledCandidate ==
    [][(NextReturned(result') /\ Len(seen_words) > 1)
         => LET w == result'.ret[1] IN
            /\ \E i \in QualifyingAt(seen_words) :
                  /\ known_words[i].value = w
                  /\ Cardinality({j \in QualifyingAt(seen_words) : j < i}) < SampleSize
            /\ seen_words' = Append(seen_words, w)
            /\ player_score' = player_score
            /\ known_words' = known_words]_vars

\* the engine moved when more than SampleSize entries qualified
EngineMoveIsSampledCandidate_Witness ==
    /\ NextReturned(result)
    /\ before.len > 1
    /\ Len(seen_words) = before.len + 1
    /\ Cardinality(QualifyingAt(SubSeq(seen_words, 1, before.len))) > SampleSize

----------------------------------------------------------------------------
\* C8: when seen_words has more than one entry, next_word fails exactly when
\* no entry of the whole index meets the four conditions, with a failure kind
\* of its own, distinct from InvalidWordException and UnknownWordException,
\* and then seen_words and player_score are unchanged.
NextWordFailsWithOwnKind ==
    [][(result'.op = "next_word" /\ Len(seen_words) > 1)
         => /\ (result'.exc # "") <=> (QualifyingAt(seen_words) = {})
            /\ (result'.exc # "")
                 => /\ result'.exc \notin {"InvalidWordException", "UnknownWordException"}
                    /\ seen_words' = seen_words
                    /\ player_score' = player_score]_vars

\* C8, amended: the failure is an InvalidWordException, the kind send_word
\* raises for an invalid move; the rest as claimed.
NextWordFailsIffNoCandidate ==
    [][(result'.op = "next_word" /\ Len(seen_words) > 1)
         => /\ (result'.exc # "") <=> (QualifyingAt(seen_words) = {})
            /\ (result'.exc # "")
                 => /\ result'.exc = "InvalidWordException"
                    /\ seen_words' = seen_words
                    /\ player_score' = player_score]_vars

\* next_word failed although entries of the index start with the required
\* unit (they are in the chain, or no noun, or end in the forbidden unit)
NextWordFailsIffNoCandidate_Witness ==
    /\ NextFailed(result)
    /\ before.len > 1
    /\ \E i \in 1..Len(known_words) :
          startswith(known_words[i].value.kana, RequiredUnit(seen_words))

----------------------------------------------------------------------------
\* C9: with exactly one entry in seen_words, next_word returns that entry and
\* leaves seen_words and player_score as they were; and a next_word call
\* finds exactly one entry if and only if it is the first next_word call on
\* the game.
FirstCallOnly ==
    (result.op = "next_word")
      => /\ (before.len = 1)
              => /\ result = Returned("next_word", <<seen_words[1]>>)
                 /\ Len(seen_words) = 1
                 /\ player_score = before.score
         /\ (before.len = 1) <=> ~before.next_called

----------------------------------------------------------------------------
\* C10: right after a successful construction seen_words holds exactly one
\* entry, player_score is 0, and the entry is a value of known_words, a noun,
\* whose reading does not end in HIRAGANA LETTER N.
InitialWord ==
    (Ready /\ result.op = "__init__")
      => /\ Len(seen_words) = 1
         /\ player_score = 0
         /\ \E i \in 1..Len(known_words) : known_words[i].value = seen_words[1]
         /\ seen_words[1].is_noun
         /\ seen_words[1].kana[Len(seen_words[1].kana)] # HIRAGANA_LETTER_N

\* constructed from an index that also holds a noun ending in the forbidden
\* unit and a word that is no noun
InitialWord_Witness ==
    /\ Ready /\ result.op = "__init__"
    /\ \E i \in 1..Len(known_words) :
          /\ known_words[i].value.is_noun
          /\ endswith(known_words[i].value.kana, HIRAGANA_LETTER_N)
    /\ \E i \in 1..Len(known_words) : ~known_words[i].value.is_noun

----------------------------------------------------------------------------
\* the rank bound in force: the one supplied, or the largest rank of the input
RankBound ==
    IF max_rank # <<>> THEN max_rank[1]
    ELSE CHOOSE r \in {words[k].rank : k \in 1..Len(words)} :
             \A k \in 1..Len(words) : r >= words[k].rank

Constructed == pc \in {"pick", "ready"}

HasKey(t) == \E i \in 1..Len(known_words) : known_words[i].key = t

\* C11: every Word of the constructed index has rank <= max_rank, the bound
\* included (a word whose rank is the bound is kept); with max_rank not
\* supplied the bound is the largest rank of the input, so the normalized
\* reading of every input word is a key of the index.
IndexWithinRank ==
    Constructed
      => /\ \A i \in 1..Len(known_words) : known_words[i].value.rank <= RankBound
         /\ \A k \in 1..Len(words) :
               words[k].rank <= RankBound => HasKey(katakana_to_hiragana(words[k].kana))
         /\ max_rank = <<>>
              => \A k \in 1..Len(words) : HasKey(katakana_to_hiragana(words[k].kana))

\* built with a supplied bound that keeps a word of exactly that rank and
\* drops a word above it
IndexWithinRank_Witness ==
    /\ Constructed
    /\ max_rank # <<>>
    /\ \E i \in 1..Len(known_words) : known_words[i].value.rank = max_rank[1]
    /\ \E k \in 1..Len(words) :
          /\ words[k].rank > max_rank[1]
          /\ ~HasKey(katakana_to_hiragana(words[k].kana))

----------------------------------------------------------------------------
\* C12: in every state, send_word of a text whose normalized form ends in
\* HIRAGANA LETTER N, typed in either syllabary, fails and appends nothing,
\* whatever else holds of the text, also when it is the only known word that
\* continues the chain.
ForbiddenEndingAlwaysFails ==
    Ready
      => \A t \in Texts :
            EndsInForbidden(katakana_to_hiragana(t))
              => /\ send_word(t).result.exc # ""
                 /\ send_word(t).seen = seen_words
                 /\ send_word(t).score = player_score

\* such a word was refused for its ending alone, and no other key of the
\* index continues the chain
ForbiddenEndingAlwaysFails_Witness ==
    /\ Ready
    /\ result.op = "send_word" /\ result.msg = "terminal"
    /\ \A i \in 1..Len(known_words) :
          startswith(known_words[i].key, RequiredUnit(seen_words))
            => EndsInForbidden(known_words[i].key)

----------------------------------------------------------------------------
\* texts written with the characters HIRAGANA LETTER SMALL A .. N
InKanaRange(t) ==
    \A i \in 1..Len(t) : t[i] >= HIRAGANA_LETTER_SMALL_A /\ t[i] <= HIRAGANA_LETTER_N

\* the same text written with KATAKANA LETTER SMALL A .. N
KatakanaSpelling(t) ==
    [i \in 1..Len(t) |-> t[i] + (KATAKANA_LETTER_SMALL_A - HIRAGANA_LETTER_SMALL_A)]

\* C13: from the same state, send_word of the katakana spelling of a text and
\* send_word of its hiragana spelling return the same Word or raise the same
\* failure, and make the same seen_words and player_score.
ScriptInsensitive ==
    Ready
      => \A t \in Texts :
            InKanaRange(t) => send_word(KatakanaSpelling(t)) = send_word(t)

\* after a player's move, a word typed in katakana is accepted, and another
\* typed in katakana ends in the forbidden unit
ScriptInsensitive_Witness ==
    /\ Ready
    /\ result.op = "send_word"
    /\ \E t \in Texts :
          /\ InKanaRange(t) /\ Len(t) > 0
          /\ send_word(KatakanaSpelling(t)).result.exc = ""
    /\ \E t \in Texts :
          /\ InKanaRange(t) /\ Len(t) > 0
          /\ send_word(KatakanaSpelling(t)).result.msg = "terminal"

----------------------------------------------------------------------------
(* katakana_to_hiragana called alone, once and then on its own result.     *)

\* the ends of the two blocks and of the mapped range, their neighbours, and
\* characters inside
CodePoints ==
    {HIRAGANA_LETTER_SMALL_A - 1, HIRAGANA_LETTER_SMALL_A, HIRAGANA_LETTER_SA,
     HIRAGANA_LETTER_N, HIRAGANA_LETTER_N + 1, HIRAGANA_DIGRAPH_YORI,
     KATAKANA_HIRAGANA_DOUBLE_HYPHEN, KATAKANA_LETTER_SMALL_A, KATAKANA_LETTER_SA,
     KATAKANA_LETTER_N, KATAKANA_LETTER_N + 1, KATAKANA_DIGRAPH_KOTO,
     KATAKANA_DIGRAPH_KOTO + 1}

Strings == UNION {[1..n -> CodePoints] : n \in 0..MaxText}

InitNormalize ==
    /\ arg_text \in Strings
    /\ ret_text = <<>>
    /\ pc = "text"
    /\ words = <<>>
    /\ max_rank = <<>>
    /\ known_words = <<>>
    /\ seen_words = <<>>
    /\ player_score = 0
    /\ result = NoCall
    /\ before = [len |-> 0, score |-> 0, next_called |-> FALSE]
    /\ next_called = FALSE
    /\ ok_submits = 0
    /\ main_pc = ""
    /\ main_word = <<>>
    /\ main_retried = FALSE

Normalize ==
    /\ pc = "text"
    /\ ret_text' = katakana_to_hiragana(arg_text)
    /\ pc' = "normalized"
    /\ UNCHANGED <<words, max_rank, known_words, seen_words, player_score, result,
                   before, next_called, ok_submits, arg_text, main_pc, main_word,
                   main_retried>>

Renormalize ==
    /\ pc = "normalized"
    /\ ret_text' = katakana_to_hiragana(ret_text)
    /\ pc' = "renormalized"
    /\ UNCHANGED <<words, max_rank, known_words, seen_words, player_score, result,
                   before, next_called, ok_submits, arg_text, main_pc, main_word,
                   main_retried>>

NextNormalize == Normalize \/ Renormalize

SpecNormalize == InitNormalize /\ [][NextNormalize]_vars

\* C14: katakana_to_hiragana(katakana_to_hiragana(x)) is
\* katakana_to_hiragana(x) for every string x over the hiragana block, the
\* katakana block and characters outside both.
NormalizeIdempotent ==
    (pc = "renormalized") => ret_text = katakana_to_hiragana(arg_text)

\* normalized twice, a string that mixes a mapped katakana character with a
\* katakana character beyond N
NormalizeIdempotent_Witness ==
    /\ pc = "renormalized"
    /\ ret_text # arg_text
    /\ \E i \in 1..Len(arg_text) : arg_text[i] = KATAKANA_LETTER_SA
    /\ \E i \in 1..Len(arg_text) : arg_text[i] > KATAKANA_LETTER_N

\* C18: for a single character c, katakana_to_hiragana returns c or a
\* character is_hiragana accepts: a c that is_katakana accepts and that is at
\* most KATAKANA LETTER N goes to a hiragana character by the fixed offset,
\* and every other c is returned as it is.
SingleCharacterInRange ==
    (pc = "normalized" /\ Len(arg_text) = 1)
      => LET c == arg_text[1]
             r == ret_text[1]
         IN  /\ r = c \/ is_hiragana(<<r>>)
             /\ IF is_katakana(<<c>>) /\ c <= KATAKANA_LETTER_N
                THEN /\ r = c - (KATAKANA_LETTER_SMALL_A - HIRAGANA_LETTER_SMALL_A)
                     /\ is_hiragana(<<r>>)
                ELSE r = c

----------------------------------------------------------------------------
\* the failures of the taxonomy, as the code raises them: RuntimeError for a
\* configuration it cannot use, InvalidWordException for an invalid move and
\* for the engine having no move, UnknownWordException
TypedFailures == {"RuntimeError", "InvalidWordException", "UnknownWordException"}

\* C15: every call of the constructor, next_word and send_word returns or
\* raises one of the typed failures, for every input, the empty text, an
\* empty word collection and a max_rank below every rank included.
TypedFailuresOnly == result.exc = "" \/ result.exc \in TypedFailures

----------------------------------------------------------------------------
(* The constructor alone, with the scheduling its sampling loop has: the   *)
(* loop of lines 71-76 keeps drawing, and a sample drawn again and again   *)
(* at random is, sooner or later, any given entry of the index.            *)

NextConstruct == New \/ PickInitial

SpecConstruct ==
    /\ Init
    /\ [][NextConstruct]_vars
    /\ WF_vars(PickInitial)

\* C17: the construction of a Game ends for every non-empty word collection
\* and every max_rank: with a typed failure when the index holds no noun that
\* does not end in the forbidden unit, with an initial word when it holds one.
ConstructionEnds ==
    (pc = "pick" /\ words # <<>>)
      ~> \/ pc = "ready"
         \/ pc = "failed" /\ result.exc \in TypedFailures

\* the part of C17 about an index that holds a qualifying word
ConstructionPicksWhenItCan ==
    (pc = "pick" /\ \E i \in 1..Len(known_words) : initial_ok(known_words[i].value))
      ~> pc = "ready"

----------------------------------------------------------------------------
(* main(): the play loop of lines 135-172 around one Game.                 *)

\* 'quit', the command of line 157
Quit == <<113, 117, 105, 116>>

SPACE == 32

\* what the player may type at line 152: nothing, blanks, quit, texts, and
\* texts with blanks around and inside
Answers ==
    {<<>>, <<SPACE>>, Quit, <<SPACE>> \o Quit}
      \cup Texts
      \cup {<<SPACE>> \o t \o <<SPACE>> : t \in Texts}
      \cup {<<t[1], SPACE>> \o Tail(t) : t \in Texts \ {<<>>}}

\* line 153: strip() and replace(' ', ''), for answers whose only blank
\* character is the space
strip_replace(answer) == SelectSeq(answer, LAMBDA c : c # SPACE)

\* both handlers going back to the prompt
except_clause_always_continue(exc) ==
    IF exc \in {"UnknownWordException", "InvalidWordException"} THEN "prompt"
    ELSE "crashed"

\* lines 164-170: where the loop goes when a call inside the try raises exc;
\* the first handler continues, the second breaks, anything else leaves main
except_clause(exc) ==
    IF exc = "UnknownWordException" THEN "prompt"
    ELSE IF exc = "InvalidWordException" THEN "over"
    ELSE "crashed"

\* line 139: the game of main is made with max_rank=None
InitMain ==
    /\ words \in Vocabularies
    /\ max_rank = <<>>
    /\ pc = "new"
    /\ known_words = <<>>
    /\ seen_words = <<>>
    /\ player_score = 0
    /\ result = NoCall
    /\ before = [len |-> 0, score |-> 0, next_called |-> FALSE]
    /\ next_called = FALSE
    /\ ok_submits = 0
    /\ arg_text = <<>>
    /\ ret_text = <<>>
    /\ main_pc = "draw"
    /\ main_word = <<>>
    /\ main_retried = FALSE

\* line 147: the first draw, outside the try
MainFirstDraw ==
    /\ main_pc = "draw"
    /\ pc = "ready"
    /\ \E e \in next_word :
          /\ seen_words' = e.seen
          /\ result' = e.result
          /\ IF e.result.exc = ""
             THEN main_word' = e.result.ret /\ main_pc' = "prompt"
             ELSE main_word' = main_word /\ main_pc' = "crashed"
    /\ UNCHANGED <<words, max_rank, pc, known_words, player_score, before,
                   next_called, ok_submits, arg_text, ret_text, main_retried>>

\* lines 152-160 and the handlers: one answer of the player; arg_text is the
\* answer after line 153
MainAnswer ==
    /\ main_pc = "prompt"
    /\ \E raw \in Answers :
          LET answer == strip_replace(raw)
              e == send_word(answer)
          IN  /\ arg_text' = answer
              /\ IF answer = <<>>
                 THEN UNCHANGED <<seen_words, player_score, result, main_pc,
                                  main_retried>>
                 ELSE IF answer = Quit
                 THEN /\ main_pc' = "over"
                      /\ UNCHANGED <<seen_words, player_score, result, main_retried>>
                 ELSE /\ seen_words' = e.seen
                      /\ player_score' = e.score
                      /\ result' = e.result
                      /\ main_pc' = IF e.result.exc = "" THEN "sent"
                                    ELSE except_clause(e.result.exc)
                      /\ main_retried' =
                            (main_retried \/ e.result.exc = "UnknownWordException")
    /\ UNCHANGED <<words, max_rank, pc, known_words, before, next_called,
                   ok_submits, ret_text, main_word>>

\* line 162 and the handlers: the engine's move after an accepted answer
MainNext ==
    /\ main_pc = "sent"
    /\ \E e \in next_word :
          /\ seen_words' = e.seen
          /\ result' = e.result
          /\ IF e.result.exc = ""
             THEN main_word' = e.result.ret /\ main_pc' = "prompt"
             ELSE main_word' = main_word /\ main_pc' = except_clause(e.result.exc)
          /\ main_retried' =
                (main_retried \/ e.result.exc = "UnknownWordException")
    /\ UNCHANGED <<words, max_rank, pc, known_words, player_score, before,
                   next_called, ok_submits, arg_text, ret_text>>

NextMain == New \/ PickInitial \/ MainFirstDraw \/ MainAnswer \/ MainNext

SpecMain == InitMain /\ [][NextMain]_vars

\* a step of the loop in which send_word was called with the answer
Submitted == main_pc = "prompt" /\ arg_text' # <<>> /\ arg_text' # Quit

\* C16: in the play loop, a send_word that fails with UnknownWordException
\* leaves the game running, the chain, the score and the word to answer
\* unchanged, and the player is asked again; a send_word or a next_word that
\* fails with InvalidWordException ends the game, and after the end no call
\* reaches the engine: chain, score and last result stay as they are.
PlayLoopRetriesOnlyUnknown ==
    [][ /\ (Submitted /\ result'.exc = "UnknownWordException")
            => /\ main_pc' = "prompt"
               /\ UNCHANGED <<seen_words, player_score, main_word>>
               /\ RequiredUnit(seen_words') = small_to_big(Last(main_word'[1].kana))
        /\ (Submitted /\ result'.exc = "InvalidWordException") => main_pc' = "over"
        /\ (main_pc = "sent" /\ result'.exc # "") => main_pc' = "over"
        /\ main_pc = "over"
            => UNCHANGED <<seen_words, player_score, result, main_pc, main_word>>
      ]_vars

\* a game in which the player was asked again after an unknown word, and that
\* a later invalid word of the player ended
PlayLoopRetriesOnlyUnknown_Witness ==
    /\ main_pc = "over"
    /\ main_retried
    /\ result.op = "send_word"
    /\ result.exc = "InvalidWordException"
    /\ Len(seen_words) >= 3

----------------------------------------------------------------------------
\* C19: in every state with more than one chain entry, every word w that
\* next_word can append is a word that send_word(w.kana), called in that state
\* instead, accepts: it returns w and appends w to the chain.
EnginePlaysByPlayerRules ==
    (Ready /\ Len(seen_words) > 1)
      => \A e \in next_word :
            e.result.exc = ""
              => LET w == e.result.ret[1]
                     s == send_word(w.kana)
                 IN  /\ s.result = Returned("send_word", <<w>>)
                     /\ s.seen = Append(seen_words, w)
                     /\ e.seen = Append(seen_words, w)

\* C20: every entry of seen_words, the initial word, an engine move or a
\* player move, is a value of the index, is a noun, and has a reading whose
\* normalized last character is not the forbidden unit.
ChainEntriesAreLegalWords ==
    \A k \in 1..Len(seen_words) :
        /\ \E i \in 1..Len(known_words) : known_words[i].value = seen_words[k]
        /\ seen_words[k].is_noun
        /\ ~EndsInForbidden(katakana_to_hiragana(seen_words[k].kana))

====
